---------------------------- MODULE Spec2Model ----------------------------
(***************************************************************************)
(* A model of the transaction builder of rs-stellar-base                   *)
(* (src/src/transaction_builder.rs) and of the Account it shares.          *)
(*                                                                         *)
(* Representation                                                          *)
(*   Option<T>      a sequence of length 0 (None) or 1 (Some(x))           *)
(*   String of      a sequence of digits 0..9, most significant first      *)
(*   decimal digits ("20" is <<2, 0>>)                                     *)
(*   BigUint        a sequence of base-10 limbs, least significant first,  *)
(*                  without high zero limbs; zero is the empty sequence    *)
(*   u32            a pair <<hi, lo>> of 16-bit limbs, value hi*2^16 + lo  *)
(*   TimePoint(u64) a natural number of seconds                            *)
(***************************************************************************)
EXTENDS Integers, Sequences, FiniteSets, TLC

VARIABLES
    account,    \* the Account behind the Rc<RefCell<Account>> the builders share
    builder,    \* builder[b]: the fields of TransactionBuilder b
    last,       \* the last call: its operation, builder, arguments and return value
    returned,   \* the Transactions build() has returned so far: <<builder, sequence>>
    submitted,  \* submitted[b]: the operations passed to add_operation on builder b
    nbuilds     \* the number of build() calls made so far (returned or panicked)

vars == <<account, builder, last, returned, submitted, nbuilds>>

---------------------------------------------------------------------------
(* Bounds of the model *)

\* the number of build() calls a behaviour may make
MaxBuilds == 2
\* the longest operation list of the specifications with a short list
MaxOpsLen == 2

---------------------------------------------------------------------------
(* Options *)

None == <<>>
Some(x) == <<x>>
is_some(o) == o # <<>>
is_none(o) == o = <<>>
unwrap(o) == o[1]

---------------------------------------------------------------------------
(* u32: two 16-bit limbs *)

Limb == 2^16

U32(hi, lo) == <<hi, lo>>

\* u32::checked_mul(f, n) for an operand n < 2^15: None on overflow
wrapping_mul(f, n) ==
    LET lo == f[2] * n
        hi == f[1] * n + (lo \div Limb)
    IN  Some(U32(hi % Limb, lo % Limb))

checked_mul(f, n) ==
    LET lo == f[2] * n
        hi == f[1] * n + (lo \div Limb)
    IN  IF hi >= Limb THEN None ELSE Some(U32(hi, lo % Limb))

---------------------------------------------------------------------------
(* Decimal strings and BigUint *)

Reverse(s) == [i \in 1..Len(s) |-> s[Len(s) + 1 - i]]

RECURSIVE normalized(_)
normalized(d) ==
    IF d # <<>> /\ d[Len(d)] = 0 THEN normalized(SubSeq(d, 1, Len(d) - 1)) ELSE d

\* BigUint::from_str(s) of a string of decimal digits
BigUint_from_str(s) == normalized(Reverse(s))

RECURSIVE BigUint_add_one(_)
BigUint_add_one(d) ==
    IF d = <<>> THEN <<1>>
    ELSE IF d[1] < 9 THEN <<d[1] + 1>> \o Tail(d)
    ELSE <<0>> \o BigUint_add_one(Tail(d))

\* the addition as a 64-bit machine addition would do it: 2^64 - 1, as limbs,
\* wraps to zero
u64_wrapping_add_one(d) ==
    IF d = Reverse(<<1,8,4,4,6,7,4,4,0,7,3,7,0,9,5,5,1,6,1,5>>)
      THEN <<>>
      ELSE BigUint_add_one(d)

\* current_seq_num.clone() + BigUint::from(1u32)
BigUint_add(d) == BigUint_add_one(d)

\* BigUint::to_string
BigUint_to_string(d) == IF d = <<>> THEN <<0>> ELSE Reverse(d)

---------------------------------------------------------------------------
(* Account: account_id and a decimal-string sequence number *)

AccountId == "GCEZWKCA5VLDNRLN3RPRJMRZOX3Z6G5CHCGSNFHEYVXM3XOJMDS674JZ"

Account_new(account_id, sequence) ==
    [account_id |-> account_id, sequence |-> sequence]

sequence_number(a) == a.sequence

account_id(a) == a.account_id

RECURSIVE DecStrInc(_)
DecStrInc(s) ==
    IF s = <<>> THEN <<1>>
    ELSE IF s[Len(s)] < 9 THEN [s EXCEPT ![Len(s)] = @ + 1]
    ELSE DecStrInc(SubSeq(s, 1, Len(s) - 1)) \o <<0>>

increment_sequence_number(a) == [a EXCEPT !.sequence = DecStrInc(@)]

---------------------------------------------------------------------------
(* The builder *)

\* VecM<Operation, 100>: the bounded operation list of the transaction body
MaxOperations == 100

TIMEOUT_INFINITE == 0

\* StringM::<28>: the bounded memo text
MemoTextMax == 28

TimePoint(t) == t

TimeBounds(min, max) == [min_time |-> min, max_time |-> max]

Memo_None == <<"None">>
Memo_Text(text) == <<"Text", text>>

\* the value a call returns
Ret(kind, tx, msg) == [kind |-> kind, tx |-> tx, msg |-> msg]
RetSelf == Ret("self", None, "")
RetOk == Ret("Ok", None, "")
RetErr(msg) == Ret("Err", None, msg)
RetPanic(msg) == Ret("panic", None, msg)
RetTransaction(tx) == Ret("Transaction", Some(tx), "")

Call(op, b, args, ret) == [op |-> op, b |-> b, args |-> args, ret |-> ret]

\* TransactionBuilder::new(source_account, network, time_bounds)
new(source_account, time_bounds) ==
    [ fee         |-> None,
      memo        |-> None,
      source      |-> Some(source_account),
      time_bounds |-> time_bounds,
      operations  |-> Some(<<>>) ]

\* TransactionBuilder::default(), derived: every field None
default ==
    [ fee         |-> None,
      memo        |-> None,
      source      |-> None,
      time_bounds |-> None,
      operations  |-> None ]

fee(b, f) ==
    /\ builder' = [builder EXCEPT ![b].fee = Some(f)]
    /\ last' = Call("fee", b, <<f>>, RetSelf)
    /\ UNCHANGED <<account, returned, submitted, nbuilds>>

\* vec.push(operation)
push_front(vec, operation) == <<operation>> \o vec

push(vec, operation) == Append(vec, operation)

add_operation(b, operation) ==
    /\ builder' = [builder EXCEPT ![b].operations =
                      IF is_some(@) THEN Some(push(unwrap(@), operation)) ELSE @]
    /\ last' = Call("add_operation", b, <<operation>>, RetSelf)
    /\ submitted' = [submitted EXCEPT ![b] = Append(@, operation)]
    /\ UNCHANGED <<account, returned, nbuilds>>

add_memo(b, memo_text) ==
    /\ IF Len(memo_text) > MemoTextMax
         THEN /\ last' = Call("add_memo", b, <<memo_text>>, RetPanic("StringM::from_str"))
              /\ UNCHANGED builder
         ELSE /\ builder' = [builder EXCEPT ![b].memo = Some(Memo_Text(memo_text))]
              /\ last' = Call("add_memo", b, <<memo_text>>, RetSelf)
    /\ UNCHANGED <<account, returned, submitted, nbuilds>>

\* the branch of set_timeout that writes the time bounds; now is the clock in
\* seconds since the epoch
timeout_bounds_without_now(time_bounds, timeout_seconds, now) ==
    IF timeout_seconds > 0
      THEN TimeBounds(IF is_some(time_bounds) THEN unwrap(time_bounds).min_time
                                              ELSE TimePoint(0),
                      TimePoint(timeout_seconds))
      ELSE TimeBounds(TimePoint(0), TimePoint(0))

timeout_bounds(time_bounds, timeout_seconds, now) ==
    IF timeout_seconds > 0
      THEN TimeBounds(IF is_some(time_bounds) THEN unwrap(time_bounds).min_time
                                              ELSE TimePoint(0),
                      TimePoint(now + timeout_seconds))
      ELSE TimeBounds(TimePoint(0), TimePoint(0))

\* the first check of set_timeout: an upper time bound is already set
max_time_unchecked(time_bounds) == FALSE

max_time_set(time_bounds) ==
    is_some(time_bounds) /\ unwrap(time_bounds).max_time > TimePoint(0)

\* clock: SystemTime::now().duration_since(UNIX_EPOCH), None when the clock is
\* set before the epoch
set_timeout(b, timeout_seconds, clock) ==
    LET self == builder[b]
        args == <<timeout_seconds, clock>>
    IN
    /\ IF max_time_set(self.time_bounds)
         THEN /\ last' = Call("set_timeout", b, args,
                     RetErr("TimeBounds.max_time has been already set - setting timeout would overwrite it."))
              /\ UNCHANGED builder
         ELSE IF timeout_seconds < 0
         THEN /\ last' = Call("set_timeout", b, args, RetErr("timeout cannot be negative"))
              /\ UNCHANGED builder
         ELSE IF is_none(clock)
         THEN /\ last' = Call("set_timeout", b, args, RetErr("Error getting current time"))
              /\ UNCHANGED builder
         ELSE /\ builder' = [builder EXCEPT ![b].time_bounds =
                     Some(timeout_bounds(self.time_bounds, timeout_seconds, unwrap(clock)))]
              /\ last' = Call("set_timeout", b, args, RetOk)
    /\ UNCHANGED <<account, returned, submitted, nbuilds>>

set_time_bounds(b, time_bounds) ==
    /\ builder' = [builder EXCEPT ![b].time_bounds = Some(time_bounds)]
    /\ last' = Call("set_time_bounds", b, <<time_bounds>>, RetSelf)
    /\ UNCHANGED <<account, returned, submitted, nbuilds>>

\* source_ref.increment_sequence_number(), called before the fee is computed
skip_increment(source_ref) == source_ref

commit_sequence(source_ref) == increment_sequence_number(source_ref)

\* the stellar_xdr Transaction, tx_obj
tx_obj(total_fee, operations) ==
    [ fee        |-> total_fee,
      seq_num    |-> 1,
      memo       |-> Memo_None,
      operations |-> operations ]

\* the Transaction build() returns
Transaction(self, source_ref, total_fee, incremented_seq_num) ==
    [ tx          |-> Some(tx_obj(total_fee, unwrap(self.operations))),
      fee         |-> total_fee,
      memo        |-> None,
      sequence    |-> BigUint_to_string(incremented_seq_num),
      source      |-> account_id(source_ref),
      time_bounds |-> self.time_bounds,
      operations  |-> self.operations ]

\* what build() returns once the source's sequence number is incremented
build_result(self, source_ref, incremented_seq_num) ==
    IF is_none(self.fee) THEN RetPanic("fee unwrap")
    ELSE IF is_none(self.operations) THEN RetPanic("operations unwrap")
    ELSE LET total == checked_mul(unwrap(self.fee), Len(unwrap(self.operations)))
         IN  IF is_none(total) THEN RetPanic("fee overflow")
             ELSE IF Len(unwrap(self.operations)) > MaxOperations
                    THEN RetPanic("operations try_into")
             ELSE RetTransaction(
                      Transaction(self, source_ref, unwrap(total), incremented_seq_num))

\* build() takes &mut self and clones the fields it uses
take_operations(self) == [self EXCEPT !.operations = Some(<<>>)]

self_after_build(self) == self

build(b) ==
    LET self == builder[b] IN
    /\ nbuilds' = nbuilds + 1
    /\ UNCHANGED submitted
    /\ IF is_none(self.source)
         THEN /\ last' = Call("build", b, <<>>, RetPanic("Source account not set"))
              /\ UNCHANGED <<account, builder, returned>>
         ELSE LET current_seq_num == BigUint_from_str(sequence_number(account))
                  incremented_seq_num == BigUint_add(current_seq_num)
                  source_ref == commit_sequence(account)
                  ret == build_result(self, source_ref, incremented_seq_num)
              IN  /\ account' = source_ref
                  /\ last' = Call("build", b, <<>>, ret)
                  /\ returned' = IF ret.kind = "Transaction"
                                   THEN Append(returned, <<b, unwrap(ret.tx).sequence>>)
                                   ELSE returned
                  /\ builder' = [builder EXCEPT ![b] = self_after_build(self)]

---------------------------------------------------------------------------
(* Inputs *)

\* "0", "9" and "18446744073709551615"
Sequences == { <<0>>, <<9>>, <<1,8,4,4,6,7,4,4,0,7,3,7,0,9,5,5,1,6,1,5>> }

Operations == { "payment_1000", "payment_2000" }

\* 100, 2^31 and 2^32 - 1
Fees == { U32(0, 100), U32(32768, 0), U32(65535, 65535) }

MemoTexts == { "100", "a memo text of 29 characters." }

MinTime == 1455287522
MaxTime == 1455297545
Now == 1700000000

TimeBoundsInputs == { TimeBounds(0, 0), TimeBounds(MinTime, 0), TimeBounds(MinTime, MaxTime) }

Timeouts == { -1, TIMEOUT_INFINITE, 30 }

Clocks == { None, Some(Now) }

NoCall == Call("new", 0, <<>>, RetSelf)

InitWith(sequences, builders) ==
    /\ account \in { Account_new(AccountId, s) : s \in sequences }
    /\ builder \in builders
    /\ last = NoCall
    /\ returned = <<>>
    /\ submitted = [b \in DOMAIN builder |-> <<>>]
    /\ nbuilds = 0

\* one builder, made by new() or by default()
Init ==
    InitWith(Sequences,
             [ {1} -> { new(AccountId, tb) : tb \in { None, Some(TimeBounds(MinTime, MaxTime)) } }
                      \cup { default } ])

\* the calls a program makes on its builders, with arguments from the given sets
CallFee(F) == \E b \in DOMAIN builder, f \in F : fee(b, f)

CallAddOperation(O, maxlen) ==
    \E b \in DOMAIN builder, op \in O :
        /\ Len(submitted[b]) < maxlen
        /\ add_operation(b, op)

CallAddMemo(M) == \E b \in DOMAIN builder, text \in M : add_memo(b, text)

CallSetTimeout(S, C) == \E b \in DOMAIN builder, s \in S, c \in C : set_timeout(b, s, c)

CallSetTimeBounds(T) == \E b \in DOMAIN builder, tb \in T : set_time_bounds(b, tb)

CallBuild == \E b \in DOMAIN builder : nbuilds < MaxBuilds /\ build(b)

Next ==
    \/ CallFee(Fees)
    \/ CallAddOperation(Operations, MaxOpsLen)
    \/ CallAddMemo(MemoTexts)
    \/ CallSetTimeout(Timeouts, Clocks)
    \/ CallSetTimeBounds(TimeBoundsInputs)
    \/ CallBuild

Spec == Init /\ [][Next]_vars

---------------------------------------------------------------------------
(* Two builders made by new() on the same Account *)

InitShared ==
    InitWith({ <<9>> }, [ {1, 2} -> { new(AccountId, None) } ])

NextShared ==
    \/ CallFee({ U32(0, 100) })
    \/ CallAddOperation({ "payment_1000" }, MaxOpsLen)
    \/ CallAddMemo({ "100" })
    \/ CallSetTimeout({ 30 }, { Some(Now) })
    \/ CallSetTimeBounds({ TimeBounds(MinTime, 0) })
    \/ CallBuild

SpecShared == InitShared /\ [][NextShared]_vars

---------------------------------------------------------------------------
(* One builder with an operation list up to one past the bound of the body *)

\* 1, 42949672 = (2^32 - 1) \div 100, 42949673 and 2^32 - 1
LongFees == { U32(0, 1), U32(655, 23592), U32(655, 23593), U32(65535, 65535) }

InitLong ==
    InitWith({ <<0>> }, [ {1} -> { new(AccountId, None) } ])

NextLong ==
    \/ CallFee(LongFees)
    \/ CallAddOperation({ "payment_1000" }, MaxOperations + 1)
    \/ CallAddMemo({ "100" })
    \/ CallSetTimeout({ TIMEOUT_INFINITE }, { Some(Now) })
    \/ CallSetTimeBounds({ TimeBounds(MinTime, MaxTime) })
    \/ CallBuild

SpecLong == InitLong /\ [][NextLong]_vars

---------------------------------------------------------------------------
(* Properties *)

IsBuildCall(c) == c.op = "build"
ReturnsTransaction(c) == c.op = "build" /\ c.ret.kind = "Transaction"
Panics(c) == c.ret.kind = "panic"
TxOf(c) == unwrap(c.ret.tx)
BodyOf(c) == unwrap(TxOf(c).tx)

\* t is the decimal string of s + 1: the trailing 9s of s become 0s and the
\* digit before them grows by one (a new leading 1 when s is all 9s)
IsSuccessor(s, t) ==
    \E k \in 0..Len(s) :
        /\ \A i \in (Len(s) - k + 1)..Len(s) : s[i] = 9
        /\ IF k = Len(s)
             THEN t = <<1>> \o [i \in 1..k |-> 0]
             ELSE /\ s[Len(s) - k] # 9
                  /\ t = [i \in 1..Len(s) |->
                            IF i < Len(s) - k THEN s[i]
                            ELSE IF i = Len(s) - k THEN s[i] + 1 ELSE 0]

\* s < t for decimal strings without leading zeros
DecLess(s, t) ==
    \/ Len(s) < Len(t)
    \/ /\ Len(s) = Len(t)
       /\ \E i \in 1..Len(s) :
            /\ s[i] < t[i]
            /\ \A j \in 1..(i - 1) : s[j] = t[j]

\* C1: a build() that returns a Transaction on an Account whose sequence
\* number is S gives the Transaction the sequence S+1, in arbitrary precision,
\* and leaves the Account's sequence number equal to S+1.
C1_BuildYieldsNextSequence ==
    [][ ReturnsTransaction(last') =>
          /\ IsSuccessor(sequence_number(account), TxOf(last').sequence)
          /\ sequence_number(account') = TxOf(last').sequence ]_vars

\* a build on the Account at 2^64 - 1 has returned the sequence 2^64
C1_Witness ==
    /\ ReturnsTransaction(last)
    /\ TxOf(last).sequence = <<1,8,4,4,6,7,4,4,0,7,3,7,0,9,5,5,1,6,1,6>>
    /\ sequence_number(account) = <<1,8,4,4,6,7,4,4,0,7,3,7,0,9,5,5,1,6,1,6>>

\* C2: with several builders on one Account, the Account's sequence number
\* never decreases, grows by exactly one at each build() call and is left alone
\* by every other call; each Transaction returned carries the Account's new
\* sequence number, so the sequences returned are increasing and pairwise
\* distinct.
C2_SequenceGrowsOnlyAtBuild ==
    [][ /\ sequence_number(account') = sequence_number(account)
           \/ DecLess(sequence_number(account), sequence_number(account'))
        /\ IsBuildCall(last') =>
              IsSuccessor(sequence_number(account), sequence_number(account'))
        /\ ~IsBuildCall(last') => account' = account
        /\ ReturnsTransaction(last') =>
              TxOf(last').sequence = sequence_number(account')
        /\ \A i, j \in 1..Len(returned') :
              i < j => /\ returned'[i][2] # returned'[j][2]
                       /\ DecLess(returned'[i][2], returned'[j][2]) ]_vars

\* two builders have each returned a Transaction, with consecutive sequences
C2_Witness ==
    /\ Len(returned) = 2
    /\ returned[1][1] # returned[2][1]
    /\ IsSuccessor(returned[1][2], returned[2][2])

\* C3: a build() that fails leaves the Account's sequence number as it was
\* before the call.
C3_FailedBuildKeepsSequence ==
    [][ (IsBuildCall(last') /\ Panics(last')) => account' = account ]_vars

\* f * n by repeated addition, the high limb left unreduced
RECURSIVE Product(_, _)
Product(f, n) ==
    IF n = 0 THEN <<0, 0>>
    ELSE LET p  == Product(f, n - 1)
             lo == p[2] + f[2]
         IN  <<p[1] + f[1] + (lo \div Limb), lo % Limb>>

FitsU32(p) == p[1] < Limb

\* the fee and the operation count of the builder a call is made on
FeeSet(c) == is_some(builder[c.b].source) /\ is_some(builder[c.b].fee)
BaseFee(c) == unwrap(builder[c.b].fee)
OpCount(c) == Len(unwrap(builder[c.b].operations))

\* what C4 says of a build() with base fee f on n operations
FeeIsProduct(c, f, n) ==
    IF FitsU32(Product(f, n))
      THEN /\ c.ret.kind = "Transaction"
           /\ TxOf(c).fee = Product(f, n)
           /\ BodyOf(c).fee = Product(f, n)
      ELSE Panics(c)

\* C4 (as claimed): for every base fee f and every operation count n >= 1,
\* build() returns a Transaction of total fee f * n when f * n fits in 32 bits
\* and fails otherwise.
C4_FeeIsProductForEveryCount ==
    [][ (IsBuildCall(last') /\ FeeSet(last') /\ OpCount(last') >= 1) =>
          FeeIsProduct(last', BaseFee(last'), OpCount(last')) ]_vars

\* C4 (amended): the same for 1 <= n <= 100; with more than 100 operations
\* build() fails whatever the fee; no Transaction carries a wrapped product.
C4_FeeIsProductUpTo100 ==
    [][ (IsBuildCall(last') /\ FeeSet(last') /\ OpCount(last') >= 1) =>
          /\ OpCount(last') <= MaxOperations =>
                FeeIsProduct(last', BaseFee(last'), OpCount(last'))
          /\ OpCount(last') > MaxOperations => Panics(last')
          /\ ReturnsTransaction(last') =>
                /\ FitsU32(Product(BaseFee(last'), OpCount(last')))
                /\ TxOf(last').fee = Product(BaseFee(last'), OpCount(last')) ]_vars

\* a build of 100 operations at base fee 42949672 has returned the total fee
\* 4294967200, and the builder is unchanged since
C4_Witness ==
    /\ ReturnsTransaction(last)
    /\ Len(unwrap(TxOf(last).operations)) = MaxOperations
    /\ builder[last.b].fee = Some(U32(655, 23592))
    /\ TxOf(last).fee = U32(65535, 65440)

\* the decimal string of a non-negative i64
RECURSIVE i64_to_string(_)
i64_to_string(n) ==
    IF n < 10 THEN <<n>> ELSE i64_to_string(n \div 10) \o <<n % 10>>

\* C5: the transaction body build() makes carries the incremented sequence
\* number, the one in the Transaction's sequence field.
C5_BodySeqNumIsSequence ==
    ReturnsTransaction(last) =>
        i64_to_string(BodyOf(last).seq_num) = TxOf(last).sequence

\* C6: the Transaction build() returns lists exactly the operations passed to
\* add_operation on that builder, in the order of the calls, in its operations
\* field and in its body.
C6_OperationsInSubmissionOrder ==
    ReturnsTransaction(last) =>
        /\ TxOf(last).operations = Some(submitted[last.b])
        /\ BodyOf(last).operations = submitted[last.b]

\* a build has returned two different operations in the order they were added
C6_Witness ==
    /\ ReturnsTransaction(last)
    /\ submitted[last.b] = <<"payment_2000", "payment_1000">>
    /\ TxOf(last).operations = Some(<<"payment_2000", "payment_1000">>)

IsSetTimeout(c) == c.op = "set_timeout"
Seconds(c) == c.args[1]
Clock(c) == c.args[2]

\* the time bounds of the builder a call is made on hold a non-zero max_time
HasUpperBound(c) ==
    /\ builder[c.b].time_bounds # None
    /\ unwrap(builder[c.b].time_bounds).max_time # 0

\* C7: set_timeout returns an error when the builder holds time bounds with a
\* non-zero max_time and when seconds is negative, and then leaves the
\* builder's time bounds as they were.
C7_SetTimeoutRejects ==
    [][ (IsSetTimeout(last') /\ (HasUpperBound(last') \/ Seconds(last') < 0)) =>
          /\ last'.ret.kind = "Err"
          /\ builder'[last'.b].time_bounds = builder[last'.b].time_bounds ]_vars

\* a set_timeout of 30 seconds was refused on a builder that holds the upper
\* bound MaxTime, which it still holds
C7_Witness ==
    /\ IsSetTimeout(last)
    /\ Seconds(last) = 30
    /\ last.ret.kind = "Err"
    /\ builder[last.b].time_bounds = Some(TimeBounds(MinTime, MaxTime))

\* C8: without a non-zero upper bound and with the clock at now seconds since
\* the epoch, set_timeout(seconds) succeeds; seconds > 0 sets max_time to
\* now + seconds, and seconds = 0 sets max_time to 0.
C8_SetTimeoutSetsMaxTime ==
    [][ (/\ IsSetTimeout(last')
         /\ ~HasUpperBound(last')
         /\ Seconds(last') >= 0
         /\ Clock(last') # None) =>
          /\ last'.ret.kind = "Ok"
          /\ builder'[last'.b].time_bounds # None
          /\ Seconds(last') > 0 =>
               unwrap(builder'[last'.b].time_bounds).max_time
                   = unwrap(Clock(last')) + Seconds(last')
          /\ Seconds(last') = 0 =>
               unwrap(builder'[last'.b].time_bounds).max_time = 0 ]_vars

\* a set_timeout of 30 seconds has succeeded and max_time is Now + 30
C8_Witness ==
    /\ IsSetTimeout(last)
    /\ Seconds(last) = 30
    /\ last.ret.kind = "Ok"
    /\ unwrap(builder[last.b].time_bounds).max_time = Now + 30

\* build() has returned a Transaction on builder b
Built(b) == \E i \in 1..Len(returned) : returned[i][1] = b

BodyMemo(memo) == IF memo = None THEN Memo_None ELSE unwrap(memo)

\* C10: the Transaction build() returns carries the builder's time bounds and
\* the memo last set with add_memo (none only if none was set).
C10_MetadataMovesIntoTransaction ==
    [][ ReturnsTransaction(last') =>
          /\ TxOf(last').time_bounds = builder[last'.b].time_bounds
          /\ TxOf(last').memo = builder[last'.b].memo
          /\ BodyOf(last').memo = BodyMemo(builder[last'.b].memo) ]_vars

\* C13: a Transaction build() returns has at least one operation and at most
\* 100; a build with none (or with more than 100) fails.
C13_BuildNeedsOneTo100Operations ==
    ReturnsTransaction(last) =>
        /\ Len(unwrap(TxOf(last).operations)) >= 1
        /\ Len(unwrap(TxOf(last).operations)) <= MaxOperations

\* the min_time a builder holds; none held counts as 0
HeldMinTime(time_bounds) ==
    IF time_bounds = None THEN 0 ELSE unwrap(time_bounds).min_time

\* C15: a set_timeout that succeeds, for every seconds >= 0, changes only the
\* upper time bound: the builder's min_time, its other fields and the Account
\* are as before the call.
C15_SetTimeoutKeepsMinTime ==
    [][ (IsSetTimeout(last') /\ last'.ret.kind = "Ok") =>
          /\ HeldMinTime(builder'[last'.b].time_bounds)
                = HeldMinTime(builder[last'.b].time_bounds)
          /\ builder'[last'.b].fee = builder[last'.b].fee
          /\ builder'[last'.b].memo = builder[last'.b].memo
          /\ builder'[last'.b].source = builder[last'.b].source
          /\ builder'[last'.b].operations = builder[last'.b].operations
          /\ account' = account ]_vars

---------------------------------------------------------------------------
(* Addresses: the strkey text of a key and its decoders                    *)
(*                                                                         *)
(* A text is modelled by what its base32 decoding holds: the version byte, *)
(* the 32-byte key (a number here), the 64-bit id of a muxed account and   *)
(* the checksum.                                                           *)

StrkeyText(version, key, id, crc) ==
    [version |-> version, key |-> key, id |-> id, crc |-> crc]

VersionByte(version) ==
    CASE version = "G" -> 48 [] version = "M" -> 96 [] version = "S" -> 144
      [] OTHER -> 0

\* the checksum a well-formed text carries
Checksum(version, key, id) == (VersionByte(version) + 31 * key + 17 * id) % 251

WellFormed(version, key, id) == StrkeyText(version, key, id, Checksum(version, key, id))

ChecksumOk(text) == text.crc = Checksum(text.version, text.key, text.id)

\* Strkey::from_string: None is Err
Strkey_from_string(text) ==
    IF ~ChecksumOk(text) THEN None
    ELSE CASE text.version = "G" -> Some(<<"PublicKeyEd25519", text.key>>)
           [] text.version = "M" -> Some(<<"MuxedAccountEd25519", text.key, text.id>>)
           [] text.version = "S" -> Some(<<"PrivateKeyEd25519", text.key>>)
           [] OTHER -> None

\* stellar_strkey::ed25519::MuxedAccount::from_str: None is Err
ed25519_MuxedAccount_from_str(text) ==
    IF ChecksumOk(text) /\ text.version = "M"
      THEN Some([ed25519 |-> text.key, id |-> text.id])
      ELSE None

xdr_MuxedAccount_Ed25519(key) == <<"Ed25519", key>>
xdr_MuxedAccount_MuxedEd25519(id, key) == <<"MuxedEd25519", id, key>>

\* xdr::MuxedAccount::from_str: None is Err
xdr_MuxedAccount_from_str(text) ==
    IF ~ChecksumOk(text) THEN None
    ELSE CASE text.version = "G" -> Some(xdr_MuxedAccount_Ed25519(text.key))
           [] text.version = "M" -> Some(xdr_MuxedAccount_MuxedEd25519(text.id, text.key))
           [] OTHER -> None

decode_address_fully_to_muxed_account(address) ==
    LET binding == unwrap(ed25519_MuxedAccount_from_str(address))
    IN  xdr_MuxedAccount_MuxedEd25519(binding.id, binding.ed25519)

\* None is the panic of the unwrap
decode_address_to_muxed_account_fix_for_g_address(address) ==
    IF is_some(ed25519_MuxedAccount_from_str(address))
      THEN Some(decode_address_fully_to_muxed_account(address))
      ELSE xdr_MuxedAccount_from_str(address)

---------------------------------------------------------------------------
(* Operation builders *)

Operation(source_account, body) == [source_account |-> source_account, body |-> body]

RetOperation(operation) == Ret("Ok", Some(operation), "")

\* Operation::create_account(destination, starting_balance, source)
create_account(destination, starting_balance, source) ==
    LET strkey == Strkey_from_string(destination) IN
    IF is_none(strkey) THEN RetErr("invalid destination")
    ELSE IF unwrap(strkey)[1] = "PublicKeyEd25519"
      THEN LET body == <<"CreateAccount",
                         [destination      |-> <<"PublicKeyTypeEd25519", unwrap(strkey)[2]>>,
                          starting_balance |-> starting_balance]>>
           IN  IF is_none(source) THEN RetOperation(Operation(None, body))
               ELSE LET muxed == decode_address_to_muxed_account_fix_for_g_address(unwrap(source))
                    IN  IF is_none(muxed)
                          THEN RetPanic("MuxedAccount::from_str unwrap")
                          ELSE RetOperation(Operation(muxed, body))
      ELSE RetErr("destination is invalid")

\* Operation::account_merge(&self, destination); self_source is self.source
account_merge(self_source, destination) ==
    LET muxed == decode_address_to_muxed_account_fix_for_g_address(destination) IN
    IF is_none(muxed) THEN RetPanic("MuxedAccount::from_str unwrap")
    ELSE RetOperation(Operation(self_source, <<"AccountMerge", unwrap(muxed)>>))

---------------------------------------------------------------------------
(* Liquidity pool id *)

LIQUIDITY_POOL_FEE_V18 == 30

\* xdr::Asset values
xdr_Asset_Native == <<"Native">>
xdr_Asset_CreditAlphanum4(code, issuer) == <<"CreditAlphanum4", code, issuer>>
xdr_Asset_CreditAlphanum12(code, issuer) == <<"CreditAlphanum12", code, issuer>>

\* Asset::from_operation: the Asset of an xdr::Asset; a code is its ASCII bytes
Asset_from_operation(x) ==
    CASE x[1] = "Native"           -> [type |-> 0, code |-> <<88, 76, 77>>, issuer |-> 0]
      [] x[1] = "CreditAlphanum4"  -> [type |-> 1, code |-> x[2], issuer |-> x[3]]
      [] x[1] = "CreditAlphanum12" -> [type |-> 2, code |-> x[2], issuer |-> x[3]]

\* the order of two byte strings: -1, 0 or 1
RECURSIVE ascii_compare(_, _)
ascii_compare(a, b) ==
    IF a = <<>> /\ b = <<>> THEN 0
    ELSE IF a = <<>> THEN -1
    ELSE IF b = <<>> THEN 1
    ELSE IF a[1] < b[1] THEN -1
    ELSE IF a[1] > b[1] THEN 1
    ELSE ascii_compare(Tail(a), Tail(b))

\* Asset::compare: by kind, then code, then issuer
Asset_compare(a, b) ==
    IF a.type # b.type THEN (IF a.type < b.type THEN -1 ELSE 1)
    ELSE IF ascii_compare(a.code, b.code) # 0 THEN ascii_compare(a.code, b.code)
    ELSE IF a.issuer < b.issuer THEN -1
    ELSE IF a.issuer > b.issuer THEN 1
    ELSE 0

LiquidityPoolConstantProduct(asset_a, asset_b, pool_fee) ==
    [asset_a |-> asset_a, asset_b |-> asset_b, fee |-> pool_fee]

\* to_xdr of the pool type and of the parameters, as the sequence of fields
LiquidityPoolType_to_xdr == << <<"i32", 0>> >>
Parameters_to_xdr(x) == << x.asset_a, x.asset_b, <<"i32", x.fee>> >>

\* crate::hashing::hash
hash(payload) == <<"sha256", payload>>

RetPoolId(id) == Ret("Ok", Some(id), "")

\* the checks of get_liquidity_pool_id with the fee checked before the type
get_liquidity_pool_id_fee_first(liquidity_pool_type, liquidity_pool_parameters) ==
    LET x == liquidity_pool_parameters IN
    IF x.fee # LIQUIDITY_POOL_FEE_V18 THEN RetErr("fee is invalid")
    ELSE IF liquidity_pool_type # "constant_product"
      THEN RetErr("liquidityPoolType is invalid")
    ELSE IF Asset_compare(Asset_from_operation(x.asset_a),
                          Asset_from_operation(x.asset_b)) # -1
      THEN RetErr("Assets are not in lexicographic order")
    ELSE RetPoolId(hash(LiquidityPoolType_to_xdr \o Parameters_to_xdr(x)))

\* LiquidityPool::get_liquidity_pool_id
get_liquidity_pool_id(liquidity_pool_type, liquidity_pool_parameters) ==
    LET x == liquidity_pool_parameters IN
    IF liquidity_pool_type # "constant_product"
      THEN RetErr("liquidityPoolType is invalid")
    ELSE IF x.fee # LIQUIDITY_POOL_FEE_V18 THEN RetErr("fee is invalid")
    ELSE IF Asset_compare(Asset_from_operation(x.asset_a),
                          Asset_from_operation(x.asset_b)) # -1
      THEN RetErr("Assets are not in lexicographic order")
    ELSE RetPoolId(hash(LiquidityPoolType_to_xdr \o Parameters_to_xdr(x)))

---------------------------------------------------------------------------
(* The calls of the operation builders and of the pool id, on their own *)

\* two account addresses, a muxed address, a secret seed, an address with a
\* wrong checksum and a text of no known version
AddressTexts ==
    { WellFormed("G", 1, 0), WellFormed("G", 2, 0), WellFormed("M", 1, 5),
      WellFormed("S", 1, 0),
      StrkeyText("G", 1, 0, (Checksum("G", 1, 0) + 1) % 251),
      WellFormed("?", 3, 0) }

\* -1 stroop, 0, and 10 * ONE
StartingBalances == { -1, 0, 10 * 10000000 }

SourceTexts ==
    { None, Some(WellFormed("G", 2, 0)), Some(WellFormed("M", 1, 5)),
      Some(WellFormed("?", 3, 0)) }

\* self.source of the Operation account_merge is called on
SelfSources == { None, Some(xdr_MuxedAccount_Ed25519(2)) }

PoolTypes == { "constant_product", "stable_swap" }

PoolFees == { LIQUIDITY_POOL_FEE_V18, 20 }

\* native, USD of issuers 1 and 2, and a 12-character code
PoolAssets ==
    { xdr_Asset_Native,
      xdr_Asset_CreditAlphanum4(<<85, 83, 68>>, 1),
      xdr_Asset_CreditAlphanum4(<<85, 83, 68>>, 2),
      xdr_Asset_CreditAlphanum12(<<65, 66, 67, 68, 69>>, 1) }

CallCreateAccount ==
    \E d \in AddressTexts, bal \in StartingBalances, src \in SourceTexts :
        /\ last' = Call("create_account", 0, <<d, bal, src>>, create_account(d, bal, src))
        /\ UNCHANGED <<account, builder, returned, submitted, nbuilds>>

CallAccountMerge ==
    \E self_source \in SelfSources, d \in AddressTexts :
        /\ last' = Call("account_merge", 0, <<self_source, d>>,
                        account_merge(self_source, d))
        /\ UNCHANGED <<account, builder, returned, submitted, nbuilds>>

CallGetLiquidityPoolId ==
    \E t \in PoolTypes, a \in PoolAssets, b \in PoolAssets, f \in PoolFees :
        /\ last' = Call("get_liquidity_pool_id", 0,
                        <<t, LiquidityPoolConstantProduct(a, b, f)>>,
                        get_liquidity_pool_id(t, LiquidityPoolConstantProduct(a, b, f)))
        /\ UNCHANGED <<account, builder, returned, submitted, nbuilds>>

InitOps == InitWith({ <<0>> }, [ {1} -> { new(AccountId, None) } ])

NextOps ==
    \/ CallCreateAccount
    \/ CallAccountMerge
    \/ CallGetLiquidityPoolId

SpecOps == InitOps /\ [][NextOps]_vars

---------------------------------------------------------------------------
(* Properties of the operation builders and of the pool id *)

\* the text is a checksummed account address (G...), not muxed
IsSimpleAddress(text) == text.version = "G" /\ ChecksumOk(text)

\* the text is a checksummed muxed address (M...)
IsMuxedAddress(text) == text.version = "M" /\ ChecksumOk(text)

\* C11: create_account returns an Operation only if the destination decodes
\* as a simple account address and the starting balance is not negative.
C11_CreateAccountValidates ==
    (last.op = "create_account" /\ last.ret.kind = "Ok") =>
        /\ IsSimpleAddress(last.args[1])
        /\ last.args[2] >= 0

\* a < b in the order by kind, then code, then issuer
AssetStrictlyLess(a, b) ==
    \/ a.type < b.type
    \/ a.type = b.type /\ ascii_compare(a.code, b.code) = -1
    \/ a.type = b.type /\ a.code = b.code /\ a.issuer < b.issuer

PoolTypeOk(c) == c.args[1] = "constant_product"
PoolFeeOk(c) == c.args[2].fee = 30
PoolAssetsOk(c) ==
    AssetStrictlyLess(Asset_from_operation(c.args[2].asset_a),
                      Asset_from_operation(c.args[2].asset_b))

\* C12: get_liquidity_pool_id checks the pool type, then the fee, then the
\* order of the assets, returns the error of the first check that fails, each
\* with its own message, and returns a pool id only when all three hold.
C12_PoolIdChecksInOrder ==
    last.op = "get_liquidity_pool_id" =>
        /\ ~PoolTypeOk(last) => last.ret = RetErr("liquidityPoolType is invalid")
        /\ (PoolTypeOk(last) /\ ~PoolFeeOk(last)) => last.ret = RetErr("fee is invalid")
        /\ (PoolTypeOk(last) /\ PoolFeeOk(last) /\ ~PoolAssetsOk(last)) =>
              last.ret = RetErr("Assets are not in lexicographic order")
        /\ (PoolTypeOk(last) /\ PoolFeeOk(last) /\ PoolAssetsOk(last)) <=>
              (last.ret.kind = "Ok" /\ last.ret.tx # None)

\* a call with a wrong pool type, a wrong fee and unordered assets has
\* returned the error of the pool type
C12_Witness ==
    /\ last.op = "get_liquidity_pool_id"
    /\ ~PoolTypeOk(last) /\ ~PoolFeeOk(last) /\ ~PoolAssetsOk(last)
    /\ last.ret = RetErr("liquidityPoolType is invalid")

\* C14: account_merge returns an Operation or an error for every destination,
\* and the error "destination is invalid" for one that decodes neither as an
\* account address nor as a muxed address.
C14_AccountMergeReturnsError ==
    last.op = "account_merge" =>
        /\ last.ret.kind \in { "Ok", "Err" }
        /\ (~IsSimpleAddress(last.args[2]) /\ ~IsMuxedAddress(last.args[2])) =>
              last.ret = RetErr("destination is invalid")

=============================================================================
